---------------------------- MODULE Spec2Model ----------------------------
(***************************************************************************)
(* NiaARMTS: decoding of a solution vector into a rule (niaarmts/rule.py)  *)
(* and the rule metrics (niaarmts/metrics.py).                             *)
(*                                                                         *)
(* Real numbers are fixed-point integers: a solution value v in [0,1] is   *)
(* the integer v * Scale, a border b is b * Scale, Scale = 10^(Digits+1),  *)
(* so np.round(.., 4) has one digit to round away.  Sequence positions are *)
(* 0-based as in the source; At(s, p) reads s[p].                          *)
(***************************************************************************)
EXTENDS Integers, Sequences, FiniteSets, TLC

VARIABLES
    features,      \* the feature registry: ordered name -> metadata
    solution,      \* build_rule: the solution vector
    rule,          \* build_rule: what the call produced (status + attributes)
    df,            \* metrics: the transaction table, a sequence of rows
    antecedents,   \* metrics: antecedent attribute list
    consequents,   \* metrics: consequent attribute list
    start,         \* metrics: window start
    end,           \* metrics: window end
    use_interval,  \* metrics: filter on 'interval' (TRUE) or 'timestamp'
    support,       \* result of calculate_support, NotRun before the call
    confidence,    \* result of calculate_confidence
    inclusion,     \* result of calculate_inclusion_metric
    amplitude,     \* result of calculate_amplitude_metric
    prev_amplitude \* amplitude of the rule before its last narrowing

vars == <<features, solution, rule, df, antecedents, consequents, start,
          end, use_interval, support, confidence, inclusion, amplitude,
          prev_amplitude>>

metricVars == <<df, antecedents, consequents, start, end, use_interval,
                support, confidence, inclusion, amplitude, prev_amplitude>>

-----------------------------------------------------------------------------
(* Bounds and units *)

MaxFeatures == 2     \* longest registry drawn
MaxRuleLen == 2      \* most attributes in antecedent and consequent together
MaxRows == 3         \* most rows in a transaction table
Digits == 4          \* np.round(..., 4)
Scale == 10 * (10 ^ Digits)

At(s, p) == s[p + 1]
InRange(s, p) == p >= 0 /\ p < Len(s)

Range(s) == {s[k] : k \in 1..Len(s)}

-----------------------------------------------------------------------------
(* Feature registry *)

Feature(n, t, lo, hi, cats) ==
    [name |-> n, type |-> t, min |-> lo, max |-> hi, categories |-> cats]

FeaturePool ==
    { Feature("x", "Numerical", 0, 10, <<>>),
      Feature("y", "Categorical", 0, 0, <<"a", "b">>),
      Feature("t", "Timestamp", 2, 5, <<>>),
      Feature("z", "Categorical", 0, 0, <<"p", "q", "r">>) }

\* a dict: ordered, keys (names) distinct
Registries ==
    UNION { { f \in [1..n -> FeaturePool] :
                \A i, j \in 1..n : i # j => f[i].name # f[j].name }
            : n \in 0..MaxFeatures }

-----------------------------------------------------------------------------
(* rule.py *)

\* feature_position: slots of the features before feature_name in registry order
RECURSIVE PositionFrom(_, _, _)
PositionFrom(feats, feature_name, k) ==
    IF k > Len(feats) \/ feats[k].name = feature_name
    THEN 0
    ELSE (IF feats[k].type = "Categorical" THEN 2 ELSE 3)
         + PositionFrom(feats, feature_name, k + 1)

feature_position(feats, feature_name) == PositionFrom(feats, feature_name, 1)

\* threshold_position, line 43
threshold_position(feature_type, vector_position) ==
    IF feature_type = "Numerical" THEN vector_position + 2
    ELSE vector_position + 1

\* calculate_border: feature_min + (feature_max - feature_min) * value
calculate_border_nomin(feature_meta, value) ==
    (feature_meta.max - feature_meta.min) * value

calculate_border(feature_meta, value) ==
    feature_meta.min * Scale + (feature_meta.max - feature_meta.min) * value

\* np.round(x, 4): nearest multiple of 10^-4, halves to the even neighbour
Round4(x) ==
    LET q == x \div 10
        r == x % 10
    IN  IF r < 5 THEN q * 10
        ELSE IF r > 5 THEN (q + 1) * 10
        ELSE IF q % 2 = 0 THEN q * 10 ELSE (q + 1) * 10

\* calculate_selected_category: int(value * (num_categories - 1))
calculate_selected_category_ceil(value, num_categories) ==
    (value * (num_categories - 1) + Scale - 1) \div Scale

calculate_selected_category(value, num_categories) ==
    (value * (num_categories - 1)) \div Scale

\* add_attribute
add_attribute(attributes, feature_name, feature_type, border1, border2, category) ==
    Append(attributes,
           [feature |-> feature_name, type |-> feature_type,
            border1 |-> border1, border2 |-> border2, category |-> category])

\* lines 52-53: ensure correct border ordering
OrderBordersNoSwap(b1, b2) == <<b1, b2>>

OrderBorders(b1, b2) == IF b1 > b2 THEN <<b2, b1>> ELSE <<b1, b2>>

\* solution[-num_features:] and solution[:-num_features] (Python slices;
\* -0 is 0, so with no feature the permutation part is the whole vector)
permutation_part(sol, num_features) ==
    IF num_features = 0 \/ num_features >= Len(sol) THEN sol
    ELSE SubSeq(sol, Len(sol) - num_features + 1, Len(sol))

solution_part(sol, num_features) ==
    IF num_features = 0 \/ num_features >= Len(sol) THEN <<>>
    ELSE SubSeq(sol, 1, Len(sol) - num_features)

\* np.argsort(p): a permutation of 0..len-1 putting p in ascending order.
\* The default kind is not stable: equal values may come in any order.
Argsorts(p) ==
    { s \in [1..Len(p) -> 0..(Len(p) - 1)] :
        /\ \A a, b \in 1..Len(p) : a # b => s[a] # s[b]
        /\ \A a \in 1..(Len(p) - 1) : At(p, s[a]) <= At(p, s[a + 1]) }

\* [::-1]
AscendingOrder(s) == s

Reversed(s) == [k \in 1..Len(s) |-> s[Len(s) + 1 - k]]

Ok(attributes) == [status |-> "ok", attributes |-> attributes]
Raised(err) == [status |-> err, attributes |-> <<>>]

\* line 23
LengthMismatchOffByOne(len_solution, num_features) == len_solution + 1 < num_features

LengthMismatch(len_solution, num_features) == len_solution < num_features

\* the loop of lines 34-71 from the k-th visited index on
RECURSIVE VisitFrom(_, _, _, _, _)
VisitFrom(feats, body, order, k, attributes) ==
    IF k > Len(order) THEN Ok(attributes)
    ELSE
    LET i == order[k] IN
    IF ~InRange(feats, i) THEN Raised("IndexError")
    ELSE
    LET feature_meta == At(feats, i)
        feature_name == feature_meta.name
        feature_type == feature_meta.type
        vector_position == feature_position(feats, feature_name)
        thr == threshold_position(feature_type, vector_position)
    IN
    IF ~InRange(body, vector_position) \/ ~InRange(body, thr)
    THEN Raised("IndexError")
    ELSE IF ~(At(body, vector_position) > At(body, thr))
    THEN VisitFrom(feats, body, order, k + 1, attributes)
    ELSE IF feature_type # "Categorical"
    THEN
        IF ~InRange(body, vector_position + 1) THEN Raised("IndexError")
        ELSE
        LET b == OrderBorders(
                   Round4(calculate_border(feature_meta, At(body, vector_position))),
                   Round4(calculate_border(feature_meta, At(body, vector_position + 1))))
        IN  VisitFrom(feats, body, order, k + 1,
                      add_attribute(attributes, feature_name, feature_type,
                                    b[1], b[2], "EMPTY"))
    ELSE
        LET categories == feature_meta.categories
            selected_category ==
                calculate_selected_category(At(body, vector_position), Len(categories))
        IN  IF ~InRange(categories, selected_category) THEN Raised("IndexError")
            ELSE VisitFrom(feats, body, order, k + 1,
                           add_attribute(attributes, feature_name, feature_type,
                                         Scale, Scale,
                                         At(categories, selected_category)))

\* build_rule with the argsort result it got
build_rule(sol, feats, argsorted) ==
    IF LengthMismatch(Len(sol), Len(feats)) THEN Raised("ValueError")
    ELSE VisitFrom(feats, solution_part(sol, Len(feats)), Reversed(argsorted), 1, <<>>)

NotDecoded == [status |-> "none", attributes |-> <<>>]

-----------------------------------------------------------------------------
(* metrics.py.  A result is the exact ratio num/den the function returns    *)
(* (den > 0), or the exception it raises.                                   *)

NotRun == [status |-> "none", num |-> 0, den |-> 1]
Ratio(n, d) == [status |-> "ok", num |-> n, den |-> d]
Throws(err) == [status |-> err, num |-> 0, den |-> 1]

HasBorders(a) == "border1" \in DOMAIN a /\ "border2" \in DOMAIN a

\* df[(df[col] >= start) & (df[col] <= end)]
Window(table, lo, hi, by_interval) ==
    SelectSeq(table, LAMBDA r :
        IF by_interval THEN r.interval >= lo /\ r.interval <= hi
        ELSE r.timestamp >= lo /\ r.timestamp <= hi)

\* one pass of the condition loops: the rows kept by attribute a
\* (an attribute that is neither Categorical nor Numerical filters nothing)
ApplyCondition(rows, a) ==
    IF a.type = "Categorical"
    THEN SelectSeq(rows, LAMBDA r : r[a.feature] = a.category)
    ELSE IF a.type = "Numerical"
    THEN SelectSeq(rows, LAMBDA r : r[a.feature] >= a.border1 /\ r[a.feature] <= a.border2)
    ELSE rows

RECURSIVE ApplyConditions(_, _, _)
ApplyConditions(rows, attrs, k) ==
    IF k > Len(attrs) THEN rows
    ELSE ApplyConditions(ApplyCondition(rows, attrs[k]), attrs, k + 1)

\* a Numerical attribute without both border keys
Malformed(attrs) ==
    \E k \in 1..Len(attrs) : attrs[k].type = "Numerical" /\ ~HasBorders(attrs[k])

\* calculate_support without the antecedent loop of lines 28-35
calculate_support_consequents_only(table, ante, cons, lo, hi, by_interval) ==
    LET df_filtered == Window(table, lo, hi, by_interval)
        filtered == Len(df_filtered)
    IN  IF Malformed(cons) THEN Throws("KeyError")
        ELSE
        LET matching == ApplyConditions(df_filtered, cons, 1)
        IN  IF Len(table) > 0
            THEN IF filtered = 0 THEN Throws("ZeroDivisionError")
                 ELSE Ratio(Len(matching), filtered)
            ELSE Ratio(0, 1)

calculate_support(table, ante, cons, lo, hi, by_interval) ==
    LET df_filtered == Window(table, lo, hi, by_interval)
        filtered == Len(df_filtered)
    IN  IF Malformed(ante) \/ Malformed(cons) THEN Throws("KeyError")
        ELSE
        LET matching == ApplyConditions(ApplyConditions(df_filtered, ante, 1), cons, 1)
        IN  IF Len(table) > 0
            THEN IF filtered = 0 THEN Throws("ZeroDivisionError")
                 ELSE Ratio(Len(matching), filtered)
            ELSE Ratio(0, 1)

\* line 106: the denominator of the confidence
ConfidenceDenominatorWindow(filtered, antecedent_count) == filtered

ConfidenceDenominator(filtered, antecedent_count) == antecedent_count

calculate_confidence(table, ante, cons, lo, hi, by_interval) ==
    LET df_filtered == Window(table, lo, hi, by_interval)
        filtered == Len(df_filtered)
    IN  IF Malformed(ante) \/ Malformed(cons) THEN Throws("ValueError")
        ELSE
        LET matched == ApplyConditions(df_filtered, ante, 1)
            antecedent_support == ApplyConditions(matched, cons, 1)
            antecedent_count == ConfidenceDenominator(filtered, Len(matched))
            consequent_count == Len(antecedent_support)
        IN  IF antecedent_count > 0
            THEN Ratio(consequent_count, antecedent_count)
            ELSE Ratio(0, 1)

\* {feature['feature'] for feature in attrs}
FeatureNames(attrs) == { attrs[k].feature : k \in 1..Len(attrs) }

\* line 126
CommonFeaturesUnion(ante, cons) ==
    Cardinality(FeatureNames(ante) \cup FeatureNames(cons))

CommonFeatures(ante, cons) ==
    Cardinality(FeatureNames(cons)) + Cardinality(FeatureNames(ante))

calculate_inclusion_metric(feats, ante, cons) ==
    LET all_dataset_features == Len(feats)
        common_features == CommonFeatures(ante, cons)
    IN  IF common_features = 0 THEN Ratio(0, 1)
        ELSE IF all_dataset_features = 0 THEN Throws("ZeroDivisionError")
        ELSE Ratio(common_features, all_dataset_features)

\* exact fractions <<n, d>>, d > 0
FracAdd(a, b) == <<a[1] * b[2] + b[1] * a[2], a[2] * b[2]>>
FracLeq(a, b) == a[1] * b[2] <= b[1] * a[2]

\* features[name]
HasFeature(feats, name) == \E k \in 1..Len(feats) : feats[k].name = name
Lookup(feats, name) == feats[CHOOSE k \in 1..Len(feats) : feats[k].name = name]

\* lines 167-170: (border2 - border1) / (feature_max - feature_min), or 0
normalized_range(a, feature_min, feature_max) ==
    IF feature_max # feature_min
    THEN <<a.border2 - a.border1, feature_max - feature_min>>
    ELSE <<0, 1>>

\* the loop of lines 157-173: <<total_range, num_numerical_attributes>>,
\* or <<>> when a lookup raises KeyError
RECURSIVE SumRanges(_, _, _, _, _)
SumRanges(feats, rule_parts, k, total_range, num_numerical_attributes) ==
    IF k > Len(rule_parts) THEN <<total_range, num_numerical_attributes>>
    ELSE
    LET a == rule_parts[k] IN
    IF a.type # "Numerical"
    THEN SumRanges(feats, rule_parts, k + 1, total_range, num_numerical_attributes)
    ELSE IF ~HasBorders(a) \/ ~HasFeature(feats, a.feature) THEN <<>>
    ELSE
    LET f == Lookup(feats, a.feature) IN
    SumRanges(feats, rule_parts, k + 1,
              FracAdd(total_range, normalized_range(a, f.min, f.max)),
              num_numerical_attributes + 1)

\* line 180: 1 - total_range / num_numerical_attributes
AmplitudeOfAverageOnly(total_range, n) == Ratio(total_range[1], total_range[2] * n)

AmplitudeOf(total_range, n) ==
    Ratio(total_range[2] * n - total_range[1], total_range[2] * n)

calculate_amplitude_metric(feats, ante, cons) ==
    LET sums == SumRanges(feats, ante \o cons, 1, <<0, 1>>, 0)
    IN  IF sums = <<>> THEN Throws("KeyError")
        ELSE IF sums[2] = 0 THEN Ratio(0, 1)
        ELSE AmplitudeOf(sums[1], sums[2])

-----------------------------------------------------------------------------
(* Inputs of build_rule *)

\* slot values of one numerical/timestamp feature (3 slots), times Scale
NumSlots ==
    { <<90000, 20000, 80000>>, <<50000, 20000, 80000>>,
      <<12346, 100000, 0>>, <<30000, 70000, 30000>> }

\* slot values of one categorical feature (2 slots), times Scale
CatSlots ==
    { <<90000, 40000>>, <<40000, 90000>>, <<100000, 50000>>, <<60000, 20000>> }

PermVals == {10000, 90000}

SlotWidth(f) == IF f.type = "Categorical" THEN 2 ELSE 3

RECURSIVE Flatten(_, _)
Flatten(c, k) == IF k > Len(c) THEN <<>> ELSE c[k] \o Flatten(c, k + 1)

\* vectors of the length the registry asks for: body slots, then permutation
FullVectors(feats) ==
    LET n == Len(feats)
        choices == { c \in [1..n -> NumSlots \cup CatSlots] :
                       \A i \in 1..n : Len(c[i]) = SlotWidth(feats[i]) }
    IN  { Flatten(c, 1) \o p : c \in choices, p \in [1..n -> PermVals] }

\* and every shorter vector: their prefixes
Solutions(feats) ==
    UNION { { SubSeq(v, 1, m) : m \in 0..Len(v) } : v \in FullVectors(feats) }

MetricsIdle ==
    /\ df = <<>>
    /\ antecedents = <<>>
    /\ consequents = <<>>
    /\ start = 0
    /\ end = 0
    /\ use_interval = FALSE
    /\ support = NotRun
    /\ confidence = NotRun
    /\ inclusion = NotRun
    /\ amplitude = NotRun
    /\ prev_amplitude = NotRun

Init ==
    /\ features \in Registries
    /\ solution \in Solutions(features)
    /\ rule = NotDecoded
    /\ MetricsIdle

\* one call of build_rule(solution, features)
BuildRule ==
    /\ rule.status = "none"
    /\ \E argsorted \in Argsorts(permutation_part(solution, Len(features))) :
          rule' = build_rule(solution, features, argsorted)
    /\ UNCHANGED <<features, solution>>
    /\ UNCHANGED metricVars

Next == BuildRule

Spec == Init /\ [][Next]_vars

-----------------------------------------------------------------------------
(* Inputs of the metrics.  Row values and the borders compared with them    *)
(* are plain integers.                                                      *)

Attr(n, t, b1, b2, c) ==
    [feature |-> n, type |-> t, border1 |-> b1, border2 |-> b2, category |-> c]

\* the last one is a numerical attribute without its border keys
ConditionPool ==
    { Attr("x", "Numerical", 3, 5, "EMPTY"),
      Attr("y", "Categorical", 1, 1, "a"),
      Attr("t", "Timestamp", 0, 1, "EMPTY"),
      [feature |-> "x", type |-> "Numerical", category |-> "EMPTY"] }

RowPool ==
    { [interval |-> 0, timestamp |-> 1, x |-> 3, y |-> "a"],
      [interval |-> 1, timestamp |-> 0, x |-> 9, y |-> "a"],
      [interval |-> 1, timestamp |-> 1, x |-> 5, y |-> "b"] }

Tables == UNION { [1..n -> RowPool] : n \in 0..MaxRows }

WindowEnds == {0, 1}

\* a rule of up to MaxRuleLen attributes, split at any point
Splits(pool) ==
    UNION { { <<SubSeq(r, 1, c), SubSeq(r, c + 1, Len(r))>> : c \in 0..Len(r) }
            : r \in UNION { [1..n -> pool] : n \in 0..MaxRuleLen } }

DecoderIdle ==
    /\ solution = <<>>
    /\ rule = NotDecoded

InitMetrics ==
    /\ features = <<>>
    /\ DecoderIdle
    /\ df \in Tables
    /\ \E sp \in Splits(ConditionPool) : antecedents = sp[1] /\ consequents = sp[2]
    /\ start \in WindowEnds
    /\ end \in WindowEnds
    /\ use_interval \in BOOLEAN
    /\ support = NotRun
    /\ confidence = NotRun
    /\ inclusion = NotRun
    /\ amplitude = NotRun
    /\ prev_amplitude = NotRun

inputVars == <<features, solution, rule, df, antecedents, consequents, start,
               end, use_interval>>

CalculateSupport ==
    /\ support = NotRun
    /\ support' = calculate_support(df, antecedents, consequents, start, end, use_interval)
    /\ UNCHANGED <<inputVars, confidence, inclusion, amplitude, prev_amplitude>>

CalculateConfidence ==
    /\ confidence = NotRun
    /\ confidence' =
          calculate_confidence(df, antecedents, consequents, start, end, use_interval)
    /\ UNCHANGED <<inputVars, support, inclusion, amplitude, prev_amplitude>>

NextMetrics == CalculateSupport \/ CalculateConfidence

SpecMetrics == InitMetrics /\ [][NextMetrics]_vars

-----------------------------------------------------------------------------
(* Inclusion and amplitude of a rule over a registry *)

RuleFeatures ==
    << Feature("x", "Numerical", 0, 10, <<>>),
       Feature("w", "Numerical", 3, 3, <<>>),
       Feature("y", "Categorical", 0, 0, <<"a", "b">>) >>

BorderGrid == {0, 5, 10}

RulePool ==
    { Attr("x", "Numerical", 0, 10, "EMPTY"),
      Attr("w", "Numerical", 0, 10, "EMPTY"),
      Attr("y", "Categorical", 1, 1, "a") }

InitRule ==
    /\ \E n \in 0..MaxFeatures :
          features = SubSeq(RuleFeatures, 1, IF n < Len(RuleFeatures) THEN n ELSE Len(RuleFeatures))
    /\ DecoderIdle
    /\ df = <<>>
    /\ \E sp \in Splits(RulePool) : antecedents = sp[1] /\ consequents = sp[2]
    /\ start = 0
    /\ end = 0
    /\ use_interval = FALSE
    /\ support = NotRun
    /\ confidence = NotRun
    /\ inclusion = NotRun
    /\ amplitude = NotRun
    /\ prev_amplitude = NotRun

CalculateInclusion ==
    /\ inclusion = NotRun
    /\ inclusion' = calculate_inclusion_metric(features, antecedents, consequents)
    /\ UNCHANGED <<inputVars, support, confidence, amplitude, prev_amplitude>>

CalculateAmplitude ==
    /\ amplitude = NotRun
    /\ amplitude' = calculate_amplitude_metric(features, antecedents, consequents)
    /\ UNCHANGED <<inputVars, support, confidence, inclusion, prev_amplitude>>

\* [border1, border2] of attribute a replaced by the sub-interval [b1, b2]
Narrowed(a, b1, b2) == [a EXCEPT !.border1 = b1, !.border2 = b2]

IsNarrowing(a, b1, b2) ==
    /\ a.type = "Numerical"
    /\ a.border1 <= b1 /\ b1 <= b2 /\ b2 <= a.border2
    /\ <<b1, b2>> # <<a.border1, a.border2>>

\* the caller narrows one numerical attribute of a scored rule and scores
\* the rule again
NarrowAndRescore ==
    /\ amplitude # NotRun
    /\ \E b1, b2 \in BorderGrid :
          \/ \E k \in 1..Len(antecedents) :
                /\ IsNarrowing(antecedents[k], b1, b2)
                /\ antecedents' = [antecedents EXCEPT ![k] = Narrowed(@, b1, b2)]
                /\ consequents' = consequents
          \/ \E k \in 1..Len(consequents) :
                /\ IsNarrowing(consequents[k], b1, b2)
                /\ consequents' = [consequents EXCEPT ![k] = Narrowed(@, b1, b2)]
                /\ antecedents' = antecedents
    /\ prev_amplitude' = amplitude
    /\ amplitude' = calculate_amplitude_metric(features, antecedents', consequents')
    /\ UNCHANGED <<features, solution, rule, df, start, end, use_interval,
                   support, confidence, inclusion>>

NextRule == CalculateInclusion \/ CalculateAmplitude \/ NarrowAndRescore

SpecRule == InitRule /\ [][NextRule]_vars

-----------------------------------------------------------------------------
(* Vocabulary of the decoder claims, stated on the inputs and the output *)

NumFeatures == Len(features)

\* registry-order slot offset of the i-th feature (1-based i, 0-based offset)
RECURSIVE Offset(_)
Offset(i) == IF i <= 1 THEN 0 ELSE Offset(i - 1) + SlotWidth(features[i - 1])

FullLength == Offset(NumFeatures + 1) + NumFeatures

\* body and permutation segments of a full-length vector
Body(p) == solution[p + 1]
Perm(i) == solution[Offset(NumFeatures + 1) + i]

Decoded == rule.status = "ok" /\ Len(solution) = FullLength

AttrsOf(i) == { k \in 1..Len(rule.attributes) :
                  rule.attributes[k].feature = features[i].name }
Included(i) == AttrsOf(i) # {}
AttrOf(i) == rule.attributes[CHOOSE k \in AttrsOf(i) : TRUE]
PosOf(i) == CHOOSE k \in AttrsOf(i) : TRUE

\* b is x rounded to 4 decimal digits
Rounded(b, x) == b % 10 = 0 /\ 2 * (b - x) <= 10 /\ 2 * (x - b) <= 10

\* b is the rounded linear rescale min + (max - min) * v of the value v
Rescaled(b, f, v) == Rounded(b, f.min * Scale + (f.max - f.min) * v)

\* idx = floor(v * (n - 1)) for a value v
FloorIndex(idx, v, n) == idx * Scale <= v * (n - 1) /\ v * (n - 1) < (idx + 1) * Scale

ScenarioA ==
    /\ features = << Feature("x", "Numerical", 0, 10, <<>>),
                     Feature("y", "Categorical", 0, 0, <<"a", "b">>) >>
    /\ solution = <<90000, 20000, 80000, 90000, 40000, 10000, 90000>>

\* C1: a feature is included iff body[offset] > body[offset+2] when it is
\* numerical or timestamp-typed and iff body[offset] > body[offset+1] when it
\* is categorical; an excluded feature contributes no attribute.
C1_InclusionGate ==
    Decoded =>
        \A i \in 1..NumFeatures :
            LET off == Offset(i)
                gate == IF features[i].type = "Categorical"
                        THEN Body(off) > Body(off + 1)
                        ELSE Body(off) > Body(off + 2)
            IN  /\ gate <=> Included(i)
                /\ Cardinality(AttrsOf(i)) <= 1

\* C2 as claimed: the borders of an included numerical/timestamp feature are
\* the rounded rescales of body[offset+1] and body[offset+2], border1 <=
\* border2; in scenario A the attribute of x has borders 2.0 and 8.0.
C2_BordersFromSlots12 ==
    Decoded =>
        /\ \A i \in 1..NumFeatures :
              (features[i].type # "Categorical" /\ Included(i)) =>
                LET a == AttrOf(i)
                    off == Offset(i)
                IN  /\ a.border1 <= a.border2
                    /\ \/ Rescaled(a.border1, features[i], Body(off + 1))
                          /\ Rescaled(a.border2, features[i], Body(off + 2))
                       \/ Rescaled(a.border1, features[i], Body(off + 2))
                          /\ Rescaled(a.border2, features[i], Body(off + 1))
        /\ ScenarioA => AttrOf(1).border1 = 2 * Scale /\ AttrOf(1).border2 = 8 * Scale

\* C2 amended: the borders of an included numerical/timestamp feature are the
\* rounded rescales of body[offset] and body[offset+1], swapped so border1 <=
\* border2; in scenario A the attribute of x has borders 2.0 and 9.0.
C2_BordersFromSlots01 ==
    Decoded =>
        /\ \A i \in 1..NumFeatures :
              (features[i].type # "Categorical" /\ Included(i)) =>
                LET a == AttrOf(i)
                    off == Offset(i)
                IN  /\ a.border1 <= a.border2
                    /\ \/ Rescaled(a.border1, features[i], Body(off))
                          /\ Rescaled(a.border2, features[i], Body(off + 1))
                       \/ Rescaled(a.border1, features[i], Body(off + 1))
                          /\ Rescaled(a.border2, features[i], Body(off))
        /\ ScenarioA => AttrOf(1).border1 = 2 * Scale /\ AttrOf(1).border2 = 9 * Scale

C2_Witness == Decoded /\ ScenarioA /\ Included(1) /\ Included(2)

\* C3 as claimed: for two included features i and j, i's attribute precedes
\* j's iff perm[i] > perm[j], or perm[i] = perm[j] and i < j.
C3_StableDescending ==
    Decoded =>
        \A i, j \in 1..NumFeatures :
            (i # j /\ Included(i) /\ Included(j)) =>
                (PosOf(i) < PosOf(j)
                    <=> (Perm(i) > Perm(j) \/ (Perm(i) = Perm(j) /\ i < j)))

\* C3 amended: for two included features i and j with perm[i] > perm[j],
\* i's attribute precedes j's (nothing is promised for equal values).
C3_Descending ==
    Decoded =>
        \A i, j \in 1..NumFeatures :
            (Included(i) /\ Included(j) /\ Perm(i) > Perm(j)) => PosOf(i) < PosOf(j)

C3_Witness ==
    /\ Decoded
    /\ \E i, j \in 1..NumFeatures :
          i < j /\ Included(i) /\ Included(j) /\ Perm(j) > Perm(i) /\ PosOf(j) < PosOf(i)

\* C6 as claimed: the category of an included categorical feature is the label
\* at index floor(body[offset+1] * (num_categories - 1)).
C6_CategoryFromSlot1 ==
    Decoded =>
        \A i \in 1..NumFeatures :
            (features[i].type = "Categorical" /\ Included(i)) =>
                \E idx \in 0..(Len(features[i].categories) - 1) :
                    /\ FloorIndex(idx, Body(Offset(i) + 1), Len(features[i].categories))
                    /\ AttrOf(i).category = features[i].categories[idx + 1]

\* C6 amended: the category of an included categorical feature is the label
\* at index floor(body[offset] * (num_categories - 1)): it is selected by the
\* feature's first slot, the one the inclusion gate compares.
C6_CategoryFromSlot0 ==
    Decoded =>
        \A i \in 1..NumFeatures :
            (features[i].type = "Categorical" /\ Included(i)) =>
                \E idx \in 0..(Len(features[i].categories) - 1) :
                    /\ FloorIndex(idx, Body(Offset(i)), Len(features[i].categories))
                    /\ AttrOf(i).category = features[i].categories[idx + 1]

C6_Witness ==
    /\ Decoded
    /\ \E i \in 1..NumFeatures :
          /\ features[i].type = "Categorical"
          /\ Included(i)
          /\ Len(features[i].categories) = 3
          /\ AttrOf(i).category = "q"
          /\ FloorIndex(0, Body(Offset(i) + 1), 3)

\* C7: every attribute of a build_rule output is well-formed: a numerical or
\* timestamp attribute has border1 <= border2 and category "EMPTY", a
\* categorical one has border1 = border2 = 1.0 and a category of its feature.
C7_WellFormed ==
    Decoded =>
        \A k \in 1..Len(rule.attributes) :
            LET a == rule.attributes[k] IN
            \E i \in 1..NumFeatures :
                /\ features[i].name = a.feature
                /\ features[i].type = a.type
                /\ IF a.type = "Categorical"
                   THEN /\ a.border1 = Scale
                        /\ a.border2 = Scale
                        /\ a.category \in Range(features[i].categories)
                   ELSE /\ a.border1 <= a.border2
                        /\ a.category = "EMPTY"

C7_Witness ==
    /\ Decoded
    /\ \E i, j \in 1..NumFeatures :
          /\ features[i].type = "Categorical" /\ Included(i)
          /\ features[j].type # "Categorical" /\ Included(j)
          /\ Body(Offset(j)) > Body(Offset(j) + 1)
          /\ AttrOf(j).border1 < AttrOf(j).border2

\* C8: for a registry with at least one feature and a vector shorter than the
\* number of features, build_rule raises ValueError and returns no list.
C8_LengthError ==
    (rule.status # "none" /\ NumFeatures >= 1 /\ Len(solution) < NumFeatures) =>
        (rule.status = "ValueError" /\ rule.attributes = <<>>)

C8_Witness ==
    rule.status = "ValueError" /\ NumFeatures = 2 /\ Len(solution) = 1

-----------------------------------------------------------------------------
(* Vocabulary of the metric claims *)

WellFormedRule == ~Malformed(antecedents) /\ ~Malformed(consequents)

\* indexes of the rows the window selects
Windowed ==
    { k \in 1..Len(df) :
        IF use_interval THEN df[k].interval >= start /\ df[k].interval <= end
        ELSE df[k].timestamp >= start /\ df[k].timestamp <= end }

\* categorical: exact equality; numerical: inclusive range membership
Matches(r, a) ==
    /\ a.type = "Categorical" => r[a.feature] = a.category
    /\ a.type = "Numerical" => (a.border1 <= r[a.feature] /\ r[a.feature] <= a.border2)

MatchesAll(r, attrs) == \A k \in 1..Len(attrs) : Matches(r, attrs[k])

\* C4: calculate_support never divides by zero: whenever the window selects
\* no row it returns 0, and its result is always a value in [0,1].
C4_SupportNeverDividesByZero ==
    (support # NotRun /\ WellFormedRule) =>
        /\ support.status = "ok"
        /\ 0 <= support.num /\ support.num <= support.den
        /\ Windowed = {} => support.num = 0

\* C5 as claimed: the inclusion metric is (|antecedent| + |consequent|) /
\* |features| with list lengths, every attribute occurrence adding one.
C5_CountsOccurrences ==
    inclusion.status = "ok" =>
        inclusion.num * Len(features)
            = (Len(antecedents) + Len(consequents)) * inclusion.den

\* C5 amended: over a non-empty registry the inclusion metric is (number of
\* distinct features of the antecedent + number of distinct features of the
\* consequent) / |features|: a feature of both lists counts twice, a feature
\* repeated within one list counts once; the result is 0 when both lists are
\* empty.
C5_CountsDistinctPerList ==
    LET names == {"x", "w", "y", "t"}
        inAnte == { n \in names : \E k \in 1..Len(antecedents) : antecedents[k].feature = n }
        inCons == { n \in names : \E k \in 1..Len(consequents) : consequents[k].feature = n }
    IN  /\ (inclusion # NotRun /\ Len(features) > 0) =>
              /\ inclusion.status = "ok"
              /\ inclusion.num * Len(features)
                    = (Cardinality(inAnte) + Cardinality(inCons)) * inclusion.den
        /\ (inclusion # NotRun /\ antecedents = <<>> /\ consequents = <<>>) =>
              (inclusion.status = "ok" /\ inclusion.num = 0)

C5_Witness ==
    /\ inclusion.status = "ok"
    /\ Len(features) = 2
    /\ Len(antecedents) = 2
    /\ antecedents[1].feature = antecedents[2].feature
    /\ inclusion.num = 1

\* C9: calculate_confidence returns |C| / |A|, A the windowed rows matching
\* every antecedent condition and C the rows of A matching every consequent
\* condition, and 0.0 when A is empty; the result lies in [0,1].
C9_Confidence ==
    (confidence # NotRun /\ WellFormedRule) =>
        LET A == { k \in Windowed : MatchesAll(df[k], antecedents) }
            C == { k \in A : MatchesAll(df[k], consequents) }
        IN  /\ confidence.status = "ok"
            /\ confidence.den > 0
            /\ 0 <= confidence.num /\ confidence.num <= confidence.den
            /\ IF A = {} THEN confidence.num = 0
               ELSE confidence.num * Cardinality(A) = Cardinality(C) * confidence.den

C9_Witness ==
    /\ confidence.status = "ok"
    /\ antecedents # <<>>
    /\ consequents # <<>>
    /\ 0 < confidence.num
    /\ confidence.num < confidence.den
    /\ confidence.den < Len(df)

\* C10: replacing one numerical attribute's [border1, border2] by a
\* sub-interval, the other attributes held fixed, never decreases the
\* amplitude metric.
C10_AmplitudeMonotone ==
    (prev_amplitude.status = "ok" /\ amplitude.status = "ok") =>
        FracLeq(<<prev_amplitude.num, prev_amplitude.den>>,
                <<amplitude.num, amplitude.den>>)

C10_Witness ==
    /\ prev_amplitude.status = "ok"
    /\ amplitude.status = "ok"
    /\ ~FracLeq(<<amplitude.num, amplitude.den>>,
                <<prev_amplitude.num, prev_amplitude.den>>)
    /\ Len(antecedents) + Len(consequents) = 2

\* C11: for the same table, antecedent, consequent, window and use_interval
\* flag, whenever the window selects a row and a windowed row matches the
\* antecedent, calculate_support <= calculate_confidence; and with an empty
\* antecedent the two returned values are equal.
C11_SupportAtMostConfidence ==
    (support.status = "ok" /\ confidence.status = "ok") =>
        LET A == { k \in Windowed : MatchesAll(df[k], antecedents) }
        IN  /\ (Windowed # {} /\ A # {}) =>
                  support.num * confidence.den <= confidence.num * support.den
            /\ antecedents = <<>> =>
                  support.num * confidence.den = confidence.num * support.den

C11_Witness ==
    /\ support.status = "ok"
    /\ confidence.status = "ok"
    /\ antecedents # <<>>
    /\ consequents # <<>>
    /\ { k \in Windowed : MatchesAll(df[k], antecedents) } # {}
    /\ 0 < support.num
    /\ support.num * confidence.den < confidence.num * support.den

=============================================================================
